---- MODULE Spec2Model ----
(***************************************************************************)
(* figma-parser: the container decoder (scripts/decode_kiwi.cjs), the      *)
(* node graph and icon classifier (extract_vectors.cjs, which follows      *)
(* decode_kiwi.cjs in the same source file) and the hierarchy printer      *)
(* (scripts/extract_hierarchy.cjs).                                        *)
(*                                                                         *)
(* Each script is one sequential run; a run is modelled as a state machine *)
(* whose actions are the script's statements, loop iterations and calls.   *)
(*                                                                         *)
(* Numbers.  A JavaScript number that may reach 2^32 is written as a pair  *)
(* <<hi, lo>> that stands for hi * 65536 + lo, with lo in 0..65535: the    *)
(* integers of the model checker are 32 bits wide, the script's are not.   *)
(***************************************************************************)
EXTENDS Integers, Sequences, FiniteSets, TLC

VARIABLES
    \* ---- decode_kiwi.cjs ----
    buf,        \* the bytes of the input file (Uint8Array)
    fzstd,      \* whether require('fzstd') succeeded
    pc,         \* the statement the decode run is at
    version,    \* const version, NoVersion until read
    offset,     \* let offset
    chunks,     \* const chunks = []
    truncated,  \* whether the "Chunk size exceeds remaining data" error was logged
    calls,      \* the decompressor calls made so far: [chunk, codec]
    written,    \* how many times fs.writeFileSync(outputFile, ...) ran
    \* ---- extract_vectors.cjs and extract_hierarchy.cjs: the node graph ----
    nodes,          \* data.nodeChanges, the records in arrival order
    gpc,            \* the statement the run is at
    bi,             \* the record the nodes.forEach of the map build is at
    nodeMap,        \* key -> the record stored (its index in nodes)
    childrenMap,    \* key -> the array of child records (indices in nodes)
    \* ---- extract_vectors.cjs ----
    fi,             \* the record the filter(...).forEach is at
    iconContainers, \* const iconContainers = []
    \* ---- extract_hierarchy.cjs ----
    maxDepth,       \* parseInt(process.argv[4] || '8', 10)
    topKey,         \* canvasKey, the key of the array topFrames refers to
    ti,             \* the element the topFrames.forEach is at
    stack,          \* the printTree calls in progress, innermost last
    output,         \* const output = []
    \* ---- extract_images.cjs and extract_layout.cjs: one image fill ----
    hash,           \* p.image.hash of the fill
    imagesHex,      \* imageHash of the mapping entry of extract_images.cjs
    layoutHex       \* fill.imageHash of extract_layout.cjs

dvars == <<buf, fzstd, pc, version, offset, chunks, truncated, calls, written>>
gvars == <<nodes, gpc, bi, nodeMap, childrenMap>>
vvars == <<fi, iconContainers>>
hvars == <<maxDepth, topKey, ti, stack, output>>
ivars == <<hash, imagesHex, layoutHex>>

vars == <<dvars, gvars, vvars, hvars, ivars>>

\* ------------------------------------------------------------------------
\* Bounds of the decode inputs
\* ------------------------------------------------------------------------

\* the largest number of well-framed chunks an input is assembled from
MaxChunks == 3

\* ------------------------------------------------------------------------
\* Numbers and bytes
\* ------------------------------------------------------------------------

Half == 65536

Min(a, b) == IF a < b THEN a ELSE b

\* bitwise OR of two naturals
RECURSIVE OrNat(_, _)
OrNat(a, b) ==
    IF a = 0 THEN b
    ELSE IF b = 0 THEN a
    ELSE (IF a % 2 = 1 \/ b % 2 = 1 THEN 1 ELSE 0) + 2 * OrNat(a \div 2, b \div 2)

\* ToInt32 / ToUint32 of ECMAScript on <<hi, lo>>
ToUint32(n) == <<n[1] % Half, n[2]>>
ToInt32(n) ==
    LET h == n[1] % Half
    IN  <<IF h >= 32768 THEN h - Half ELSE h, n[2]>>

\* x | y : both operands through ToInt32, the result an int32
BitOr(x, y) ==
    LET a == ToUint32(x)
        b == ToUint32(y)
    IN  ToInt32(<<OrNat(a[1], b[1]), OrNat(a[2], b[2])>>)

\* byte << k for k = 0, 8, 16, 24: an int32
ShiftLeft(byte, k) ==
    CASE k = 0  -> ToInt32(<<0, byte>>)
      [] k = 8  -> ToInt32(<<0, byte * 256>>)
      [] k = 16 -> ToInt32(<<byte, 0>>)
      [] k = 24 -> ToInt32(<<byte * 256, 0>>)

\* x >>> 0
UnsignedShift0(x) == ToUint32(x)

\* DataView.getUint32(off, true): off is 0-based, the caller keeps it in range
getUint32(b, off) ==
    <<b[off + 4] * 256 + b[off + 3], b[off + 2] * 256 + b[off + 1]>>

\* Uint8Array.slice(from, to): 0-based, to exclusive, clamped to the length
Slice(b, from, to) == SubSeq(b, from + 1, Min(to, Len(b)))

\* new TextDecoder().decode(bytes): the code points of the text.  An ASCII
\* byte is its own character; a leading UTF-8 byte order mark is dropped; any
\* other byte yields a character outside ASCII (written 65533, U+FFFD).
TextDecode(bytes) ==
    LET body == IF Len(bytes) >= 3 /\ SubSeq(bytes, 1, 3) = <<239, 187, 191>>
                THEN SubSeq(bytes, 4, Len(bytes))
                ELSE bytes
    IN  [i \in 1..Len(body) |-> IF body[i] < 128 THEN body[i] ELSE 65533]

\* 'fig-kiwi' as the code points of the string literal
FIG_KIWI_PRELUDE == <<102, 105, 103, 45, 107, 105, 119, 105>>

\* 0xFD2FB528
ZSTD_MAGIC == <<64815, 46376>>

NoVersion == <<-1, -1>>

\* ------------------------------------------------------------------------
\* Input files of the decode run
\* ------------------------------------------------------------------------

\* n as 4 little-endian bytes
LE32(n) == <<n[2] % 256, n[2] \div 256, n[1] % 256, n[1] \div 256>>

RECURSIVE Frames(_)
Frames(cs) ==
    IF cs = <<>> THEN <<>>
    ELSE LE32(<<0, Len(Head(cs))>>) \o Head(cs) \o Frames(Tail(cs))

Assemble(prelude, v, cs, tail) == prelude \o LE32(v) \o Frames(cs) \o tail

Preludes ==
    { FIG_KIWI_PRELUDE,
      <<102, 105, 103, 45, 107, 105, 119, 106>>,      \* fig-kiwj
      <<239, 187, 191, 102, 105, 103, 45, 107>> }     \* BOM + fig-k

Versions == { <<0, 106>>, <<65535, 65535>> }

ChunkPayloads ==
    { <<>>, <<1>>,
      <<40, 181, 47, 253>>, <<40, 181, 47, 253, 0>>,  \* zstd frames
      <<40, 181, 47>>, <<40, 181, 47, 125>> }         \* near misses

ChunkLists == UNION { [1..n -> ChunkPayloads] : n \in 0..MaxChunks }

Tails ==
    { <<>>, <<7>>,
      <<9, 0, 0, 0>>,             \* a length field at the very end
      <<2, 0, 0, 0, 7>>,          \* a chunk cut short
      <<0, 0, 0, 1, 7, 7>> }      \* a length of 2^24

ShortInputs ==
    { <<>>, SubSeq(FIG_KIWI_PRELUDE, 1, 7), FIG_KIWI_PRELUDE \o <<1, 0>> }

Inputs ==
    { Assemble(p, v, cs, t) : p \in Preludes, v \in Versions,
                              cs \in ChunkLists, t \in Tails }
    \cup ShortInputs

\* ------------------------------------------------------------------------
\* Values a field of a record may lack (JavaScript undefined / null)
\* ------------------------------------------------------------------------

NoGuid == [sessionID |-> -1, localID |-> -1]
NoPosition == <<0>>
NoParentIndex == [guid |-> NoGuid, position |-> NoPosition]
NoSize == [x |-> -1, y |-> -1]
NoOpacity == -1
NullKey == <<-1, -1>>

\* ---- one image fill: extract_images.cjs and extract_layout.cjs ----

\* A hash is [kind, bytes]: an Array of bytes, or an Object with the numeric
\* keys 0 .. Len(bytes) - 1 (what JSON.stringify makes of a Uint8Array).
\* NoHash is a hash that is absent.
NoHash == [kind |-> "absent", bytes |-> <<>>]

\* results: a string of hex digits (each digit written as its value 0..15),
\* null, no imageHash at all, and not yet computed
NullHex == <<-1>>
NoImageHash == <<-2>>
NotRun == <<-3>>

\* the image scripts are not running
HashIdle ==
    /\ hash = NoHash
    /\ imagesHex = NotRun
    /\ layoutHex = NotRun

\* the node scripts are not running
NodesIdle ==
    /\ nodes = <<>>
    /\ gpc = "idle"
    /\ bi = 0
    /\ nodeMap = <<>>
    /\ childrenMap = <<>>
    /\ fi = 0
    /\ iconContainers = <<>>
    /\ maxDepth = 0
    /\ topKey = NullKey
    /\ ti = 0
    /\ stack = <<>>
    /\ output = <<>>

\* ------------------------------------------------------------------------
\* decode_kiwi.cjs
\* ------------------------------------------------------------------------

InitDecode ==
    /\ HashIdle
    /\ buf \in Inputs
    /\ fzstd \in BOOLEAN
    /\ pc = "prelude"
    /\ version = NoVersion
    /\ offset = 0
    /\ chunks = <<>>
    /\ truncated = FALSE
    /\ calls = <<>>
    /\ written = 0
    /\ NodesIdle

\* lines 49-54
VerifyPrelude7 ==
    /\ pc = "prelude"
    /\ LET prelude == TextDecode(Slice(buf, 0, Len(FIG_KIWI_PRELUDE) - 1))
       IN  pc' = IF prelude # SubSeq(FIG_KIWI_PRELUDE, 1, 7) THEN "exit1" ELSE "version"
    /\ UNCHANGED <<buf, fzstd, version, offset, chunks, truncated, calls, written>>
    /\ UNCHANGED <<gvars, vvars, hvars, ivars>>

VerifyPrelude ==
    /\ pc = "prelude"
    /\ LET prelude == TextDecode(Slice(buf, 0, Len(FIG_KIWI_PRELUDE)))
       IN  pc' = IF prelude # FIG_KIWI_PRELUDE THEN "exit1" ELSE "version"
    /\ UNCHANGED <<buf, fzstd, version, offset, chunks, truncated, calls, written>>
    /\ UNCHANGED <<gvars, vvars, hvars, ivars>>

\* lines 56-60; getUint32 throws a RangeError when the 4 bytes are not there
ReadVersion ==
    /\ pc = "version"
    /\ IF Len(FIG_KIWI_PRELUDE) + 4 > Len(buf)
       THEN /\ pc' = "threw"
            /\ UNCHANGED <<version, offset>>
       ELSE /\ version' = getUint32(buf, Len(FIG_KIWI_PRELUDE))
            /\ offset' = Len(FIG_KIWI_PRELUDE) + 4
            /\ pc' = "loop"
    /\ UNCHANGED <<buf, fzstd, chunks, truncated, calls, written>>
    /\ UNCHANGED <<gvars, vvars, hvars, ivars>>

\* size is <<hi, lo>>; buffers are shorter than 65536 bytes
Exceeds(off, size, length) == size[1] > 0 \/ off + size[2] > length

\* lines 62-71 with the bounds check of line 65 left out
ReadChunkUnchecked ==
    /\ pc = "loop"
    /\ offset + 4 < Len(buf)
    /\ LET size == getUint32(buf, offset)
           off  == offset + 4
       IN  /\ chunks' = Append(chunks,
                  Slice(buf, off, IF size[1] > 0 THEN Len(buf) ELSE off + size[2]))
           /\ offset' = IF Exceeds(off, size, Len(buf)) THEN Len(buf) ELSE off + size[2]
           /\ UNCHANGED <<pc, truncated>>
    /\ UNCHANGED <<buf, fzstd, version, calls, written>>
    /\ UNCHANGED <<gvars, vvars, hvars, ivars>>

\* lines 62-71 without the offset += 4 of line 64: the chunk is cut from the
\* position of its length field
ReadChunkNoSkip ==
    /\ pc = "loop"
    /\ offset + 4 < Len(buf)
    /\ LET size == getUint32(buf, offset)
           off  == offset
       IN  IF Exceeds(off, size, Len(buf))
           THEN /\ truncated' = TRUE
                /\ offset' = off
                /\ pc' = "count"
                /\ UNCHANGED chunks
           ELSE /\ chunks' = Append(chunks, Slice(buf, off, off + size[2]))
                /\ offset' = off + size[2]
                /\ UNCHANGED <<pc, truncated>>
    /\ UNCHANGED <<buf, fzstd, version, calls, written>>
    /\ UNCHANGED <<gvars, vvars, hvars, ivars>>

\* lines 62-71: one iteration of the while loop
ReadChunk ==
    /\ pc = "loop"
    /\ offset + 4 < Len(buf)
    /\ LET size == getUint32(buf, offset)
           off  == offset + 4
       IN  IF Exceeds(off, size, Len(buf))
           THEN /\ truncated' = TRUE
                /\ offset' = off
                /\ pc' = "count"
                /\ UNCHANGED chunks
           ELSE /\ chunks' = Append(chunks, Slice(buf, off, off + size[2]))
                /\ offset' = off + size[2]
                /\ UNCHANGED <<pc, truncated>>
    /\ UNCHANGED <<buf, fzstd, version, calls, written>>
    /\ UNCHANGED <<gvars, vvars, hvars, ivars>>

\* line 62: the loop condition is false
EndOfChunks ==
    /\ pc = "loop"
    /\ ~(offset + 4 < Len(buf))
    /\ pc' = "count"
    /\ UNCHANGED <<buf, fzstd, version, offset, chunks, truncated, calls, written>>
    /\ UNCHANGED <<gvars, vvars, hvars, ivars>>

\* lines 75-78 with the threshold 1
CheckChunkCount1 ==
    /\ pc = "count"
    /\ pc' = IF Len(chunks) < 1 THEN "exit1" ELSE "inflateSchema"
    /\ UNCHANGED <<buf, fzstd, version, offset, chunks, truncated, calls, written>>
    /\ UNCHANGED <<gvars, vvars, hvars, ivars>>

\* lines 75-78
CheckChunkCount ==
    /\ pc = "count"
    /\ pc' = IF Len(chunks) < 2 THEN "exit1" ELSE "inflateSchema"
    /\ UNCHANGED <<buf, fzstd, version, offset, chunks, truncated, calls, written>>
    /\ UNCHANGED <<gvars, vvars, hvars, ivars>>

\* lines 80-83: pako.inflateRaw(chunks[0]) returns or throws
InflateSchema ==
    /\ pc = "inflateSchema"
    /\ calls' = Append(calls, [chunk |-> 0, codec |-> "deflate-raw"])
    /\ \E ok \in BOOLEAN : pc' = IF ok THEN "decodeSchema" ELSE "threw"
    /\ UNCHANGED <<buf, fzstd, version, offset, chunks, truncated, written>>
    /\ UNCHANGED <<gvars, vvars, hvars, ivars>>

\* lines 86-88: decodeBinarySchema and compileSchema return or throw
DecodeSchema ==
    /\ pc = "decodeSchema"
    /\ \E ok \in BOOLEAN : pc' = IF ok THEN "message" ELSE "threw"
    /\ UNCHANGED <<buf, fzstd, version, offset, chunks, truncated, calls, written>>
    /\ UNCHANGED <<gvars, vvars, hvars, ivars>>

\* lines 93-97 with the signed value compared (no >>> 0)
isZstdSigned(chunk) ==
    IF Len(chunk) < 4 THEN FALSE
    ELSE LET magic == BitOr(BitOr(BitOr(ShiftLeft(chunk[1], 0), ShiftLeft(chunk[2], 8)),
                                  ShiftLeft(chunk[3], 16)), ShiftLeft(chunk[4], 24))
         IN  magic = ZSTD_MAGIC

\* lines 93-97
isZstd(chunk) ==
    IF Len(chunk) < 4 THEN FALSE
    ELSE LET magic == BitOr(BitOr(BitOr(ShiftLeft(chunk[1], 0), ShiftLeft(chunk[2], 8)),
                                  ShiftLeft(chunk[3], 16)), ShiftLeft(chunk[4], 24))
         IN  UnsignedShift0(magic) = ZSTD_MAGIC

\* lines 99-111: chunks[1] of the script is chunks[2] here (sequences start at 1)
DecompressMessage ==
    /\ pc = "message"
    /\ IF isZstd(chunks[2])
       THEN IF ~fzstd
            THEN /\ pc' = "exit1"
                 /\ UNCHANGED calls
            ELSE /\ calls' = Append(calls, [chunk |-> 1, codec |-> "zstd"])
                 /\ \E ok \in BOOLEAN : pc' = IF ok THEN "decodeMessage" ELSE "threw"
       ELSE /\ calls' = Append(calls, [chunk |-> 1, codec |-> "deflate-raw"])
            /\ \E ok \in BOOLEAN : pc' = IF ok THEN "decodeMessage" ELSE "threw"
    /\ UNCHANGED <<buf, fzstd, version, offset, chunks, truncated, written>>
    /\ UNCHANGED <<gvars, vvars, hvars, ivars>>

\* lines 113-119: compiled.decodeMessage returns or throws
DecodeMessage ==
    /\ pc = "decodeMessage"
    /\ \E ok \in BOOLEAN : pc' = IF ok THEN "write" ELSE "threw"
    /\ UNCHANGED <<buf, fzstd, version, offset, chunks, truncated, calls, written>>
    /\ UNCHANGED <<gvars, vvars, hvars, ivars>>

\* lines 121-125 run from an exit handler: the write also follows a failure
WriteOutputOnExit ==
    /\ pc \in {"write", "exit1", "threw"}
    /\ written = 0
    /\ written' = written + 1
    /\ pc' = "done"
    /\ UNCHANGED <<buf, fzstd, version, offset, chunks, truncated, calls>>
    /\ UNCHANGED <<gvars, vvars, hvars, ivars>>

\* lines 121-125
WriteOutput ==
    /\ pc = "write"
    /\ written' = written + 1
    /\ pc' = "done"
    /\ UNCHANGED <<buf, fzstd, version, offset, chunks, truncated, calls>>
    /\ UNCHANGED <<gvars, vvars, hvars, ivars>>

NextDecode ==
    \/ VerifyPrelude
    \/ ReadVersion
    \/ ReadChunk
    \/ EndOfChunks
    \/ CheckChunkCount
    \/ InflateSchema
    \/ DecodeSchema
    \/ DecompressMessage
    \/ DecodeMessage
    \/ WriteOutput

SpecDecode == InitDecode /\ [][NextDecode]_vars

\* the decode script is not running
DecodeIdle ==
    /\ buf = <<>>
    /\ fzstd = FALSE
    /\ pc = "idle"
    /\ version = NoVersion
    /\ offset = 0
    /\ chunks = <<>>
    /\ truncated = FALSE
    /\ calls = <<>>
    /\ written = 0

\* ------------------------------------------------------------------------
\* The node graph: extract_vectors.cjs lines 195-206 and, with the same
\* statements, extract_hierarchy.cjs lines 34-44
\* ------------------------------------------------------------------------

\* Units.  A size is in tenths of a pixel, an opacity in ten-thousandths.

\* guidKey(g): the string `${g.sessionID}:${g.localID}`, written as the pair of
\* numbers it is printed from; null when there is no guid
guidKey(g) == IF g = NoGuid THEN NullKey ELSE <<g.sessionID, g.localID>>

\* Math.round of a number given in tenths
MathRound(t) == (t + 5) \div 10

\* map[key], 0 when the key is not in the map (undefined)
Lookup(map, key) == IF key \in DOMAIN map THEN map[key] ELSE 0

\* map[key] || []
ChildrenOf(map, key) == IF key \in DOMAIN map THEN map[key] ELSE <<>>

\* map with map[key] = value
Store(map, key, value) ==
    [k \in DOMAIN map \cup {key} |-> IF k = key THEN value ELSE map[k]]

\* lines 198-206: one iteration of nodes.forEach
BuildStep ==
    /\ gpc = "build"
    /\ bi <= Len(nodes)
    /\ LET n   == nodes[bi]
           key == guidKey(n.guid)
       IN  /\ nodeMap' = IF key # NullKey THEN Store(nodeMap, key, bi) ELSE nodeMap
           /\ childrenMap' =
                  IF n.parentIndex.guid # NoGuid
                  THEN LET parentKey == guidKey(n.parentIndex.guid)
                       IN  Store(childrenMap, parentKey,
                                 Append(ChildrenOf(childrenMap, parentKey), bi))
                  ELSE childrenMap
    /\ bi' = bi + 1
    /\ UNCHANGED <<nodes, gpc>>
    /\ UNCHANGED <<dvars, vvars, hvars, ivars>>

\* ------------------------------------------------------------------------
\* extract_vectors.cjs (decode_kiwi.cjs lines 127-484)
\* ------------------------------------------------------------------------

\* the hops of the vector search, line 407
VectorSearchDepth == 5

\* the largest rounded side of an icon container, line 401
MaxIconSide == 32

\* lines 182-187; 0.01 is 100 ten-thousandths
isTransparentBg(n) ==
    /\ n.type = "ROUNDED_RECTANGLE"
    /\ n.opacity # NoOpacity
    /\ n.opacity < 100

\* lines 383-392; the loop returns at the first child that satisfies the test
RECURSIVE hasVectorDescendant(_, _)
hasVectorDescendant(key, depth) ==
    IF depth <= 0 THEN FALSE
    ELSE \E i \in 1..Len(ChildrenOf(childrenMap, key)) :
            LET c  == nodes[ChildrenOf(childrenMap, key)[i]]
                ck == guidKey(c.guid)
            IN  \/ c.type = "VECTOR"
                \/ c.type = "BOOLEAN_OPERATION"
                \/ (ck # NullKey /\ hasVectorDescendant(ck, depth - 1))

\* A shape tree is [guid, rec, children]: rec is the record the node was made
\* from (its type, name, size, paints are that record's).  NullTree is the null
\* buildShapeTree returns; StackOverflow stands for the RangeError the engine
\* throws when the recursion does not end.
NullTree == [guid |-> NullKey, rec |-> 0, children |-> <<>>]
StackOverflow == [guid |-> NullKey, rec |-> -1, children |-> <<>>]

\* lines 247-283.  The recursion follows child lists by key, so a call nested
\* deeper than there are records is on a cycle of keys and never returns.
RECURSIVE buildShapeTree(_, _)
RECURSIVE ShapeChildren(_, _, _)
ShapeChildren(children, i, depth) ==
    IF i > Len(children) THEN <<>>
    ELSE LET ck    == guidKey(nodes[children[i]].guid)
             child == IF ck # NullKey THEN buildShapeTree(ck, depth + 1) ELSE NullTree
         IN  IF child = StackOverflow THEN <<StackOverflow>>
             ELSE LET rest == ShapeChildren(children, i + 1, depth)
                  IN  IF rest # <<>> /\ rest[1] = StackOverflow THEN rest
                      ELSE IF child = NullTree THEN rest
                      ELSE <<child>> \o rest

buildShapeTree(key, depth) ==
    IF depth > Len(nodes) THEN StackOverflow
    ELSE LET n == Lookup(nodeMap, key)
         IN  IF n = 0 THEN NullTree
             ELSE IF isTransparentBg(nodes[n]) THEN NullTree
             ELSE LET kids == ShapeChildren(ChildrenOf(childrenMap, key), 1, depth)
                  IN  IF kids # <<>> /\ kids[1] = StackOverflow THEN StackOverflow
                      ELSE [guid |-> key, rec |-> n, children |-> kids]

\* ---- colours of a shape tree: lines 170-176, 260-267, 290-356 ----

\* A colour is [r, g, b] with each channel in 510ths of the full intensity, so
\* that two colours can differ and still print as the same hex string.  A
\* channel that is absent (c.r || 0) is NoChannel; a paint without a colour
\* (a gradient, an image) has the colour NoColor.
NoChannel == -1
NoColor == [r |-> -2, g |-> -2, b |-> -2]

\* the value null of a colour string
NoHex == <<-1, -1, -1>>

\* Math.round((c.r || 0) * 255) of a channel given in 510ths
Round255(u) == IF u = NoChannel THEN 0 ELSE (u + 1) \div 2

\* lines 170-176: the string '#rrggbb', written as its three bytes
colorToHex(c) ==
    IF c = NoColor THEN NoHex
    ELSE <<Round255(c.r), Round255(c.g), Round255(c.b)>>

\* lines 260-261 and 264-265: (paints || []).filter(p => p.color).map(colorToHex)
RECURSIVE PaintColors(_)
PaintColors(paints) ==
    IF paints = <<>> THEN <<>>
    ELSE (IF Head(paints).color # NoColor
          THEN <<colorToHex(Head(paints).color)>> ELSE <<>>)
         \o PaintColors(Tail(paints))

\* lines 255, 260-267: the type, fills and strokes of a shape-tree node are
\* those of the record it was built from
ShapeType(t) == nodes[t.rec].type
ShapeFills(t) == PaintColors(nodes[t.rec].fillPaints)
ShapeStrokes(t) == PaintColors(nodes[t.rec].strokePaints)

\* lines 290-332.  FirstChildColor is one of the two loops over the children:
\* lines 314-318 with skip, lines 321-324 without.
RECURSIVE extractPrimaryColor(_)
RECURSIVE FirstChildColor(_, _, _)
\* lines 314-318 without the continue of line 315: no child is skipped
RECURSIVE FirstChildColorNoSkip(_, _, _)
FirstChildColorNoSkip(children, i, skip) ==
    IF i > Len(children) THEN NoHex
    ELSE LET color == extractPrimaryColor(children[i])
         IN  IF color # NoHex THEN color
             ELSE FirstChildColorNoSkip(children, i + 1, skip)

FirstChildColor(children, i, skip) ==
    IF i > Len(children) THEN NoHex
    ELSE IF skip /\ ShapeType(children[i]) = "ROUNDED_RECTANGLE"
    THEN FirstChildColor(children, i + 1, skip)
    ELSE LET color == extractPrimaryColor(children[i])
         IN  IF color # NoHex THEN color
             ELSE FirstChildColor(children, i + 1, skip)

\* lines 290-332 without the rule of lines 294-296
extractPrimaryColorNoBoolean(shapeTree) ==
    IF shapeTree = NullTree THEN NoHex
    ELSE LET type    == ShapeType(shapeTree)
             fills   == ShapeFills(shapeTree)
             strokes == ShapeStrokes(shapeTree)
         IN  IF type = "VECTOR" /\ Len(fills) > 0 THEN fills[1]
             ELSE IF type = "VECTOR" /\ Len(fills) = 0 /\ Len(strokes) > 0 THEN strokes[1]
             ELSE IF type = "ELLIPSE" /\ Len(strokes) > 0 THEN strokes[1]
             ELSE LET first == FirstChildColor(shapeTree.children, 1, TRUE)
                  IN  IF first # NoHex THEN first
                      ELSE LET last == FirstChildColor(shapeTree.children, 1, FALSE)
                           IN  IF last # NoHex THEN last
                               ELSE IF Len(strokes) > 0 THEN strokes[1]
                               ELSE NoHex

\* lines 290-332 with the stroke of a VECTOR tried before its fill
extractPrimaryColorStrokeFirst(shapeTree) ==
    IF shapeTree = NullTree THEN NoHex
    ELSE LET type    == ShapeType(shapeTree)
             fills   == ShapeFills(shapeTree)
             strokes == ShapeStrokes(shapeTree)
         IN  IF type = "BOOLEAN_OPERATION" /\ Len(fills) > 0 THEN fills[1]
             ELSE IF type = "VECTOR" /\ Len(strokes) > 0 THEN strokes[1]
             ELSE IF type = "VECTOR" /\ Len(fills) > 0 THEN fills[1]
             ELSE IF type = "ELLIPSE" /\ Len(strokes) > 0 THEN strokes[1]
             ELSE LET first == FirstChildColor(shapeTree.children, 1, TRUE)
                  IN  IF first # NoHex THEN first
                      ELSE LET last == FirstChildColor(shapeTree.children, 1, FALSE)
                           IN  IF last # NoHex THEN last
                               ELSE IF Len(strokes) > 0 THEN strokes[1]
                               ELSE NoHex

\* lines 290-332 with the fallback of lines 327-329 tried before the children
extractPrimaryColorOwnStrokeFirst(shapeTree) ==
    IF shapeTree = NullTree THEN NoHex
    ELSE LET type    == ShapeType(shapeTree)
             fills   == ShapeFills(shapeTree)
             strokes == ShapeStrokes(shapeTree)
         IN  IF type = "BOOLEAN_OPERATION" /\ Len(fills) > 0 THEN fills[1]
             ELSE IF type = "VECTOR" /\ Len(fills) > 0 THEN fills[1]
             ELSE IF type = "VECTOR" /\ Len(fills) = 0 /\ Len(strokes) > 0 THEN strokes[1]
             ELSE IF type = "ELLIPSE" /\ Len(strokes) > 0 THEN strokes[1]
             ELSE IF Len(strokes) > 0 THEN strokes[1]
             ELSE LET first == FirstChildColor(shapeTree.children, 1, TRUE)
                  IN  IF first # NoHex THEN first
                      ELSE FirstChildColor(shapeTree.children, 1, FALSE)

extractPrimaryColor(shapeTree) ==
    IF shapeTree = NullTree THEN NoHex
    ELSE LET type    == ShapeType(shapeTree)
             fills   == ShapeFills(shapeTree)
             strokes == ShapeStrokes(shapeTree)
         IN  IF type = "BOOLEAN_OPERATION" /\ Len(fills) > 0 THEN fills[1]
             ELSE IF type = "VECTOR" /\ Len(fills) > 0 THEN fills[1]
             ELSE IF type = "VECTOR" /\ Len(fills) = 0 /\ Len(strokes) > 0 THEN strokes[1]
             ELSE IF type = "ELLIPSE" /\ Len(strokes) > 0 THEN strokes[1]
             ELSE LET first == FirstChildColor(shapeTree.children, 1, TRUE)
                  IN  IF first # NoHex THEN first
                      ELSE LET last == FirstChildColor(shapeTree.children, 1, FALSE)
                           IN  IF last # NoHex THEN last
                               ELSE IF Len(strokes) > 0 THEN strokes[1]
                               ELSE NoHex

\* lines 339-344: each colour is pushed unless colors already includes it
RECURSIVE PushNew(_, _)
PushNew(cs, colors) ==
    IF cs = <<>> THEN colors
    ELSE PushNew(Tail(cs),
                 IF \E i \in 1..Len(colors) : colors[i] = Head(cs)
                 THEN colors ELSE Append(colors, Head(cs)))

\* lines 337-346; the array colors is passed along and returned
RECURSIVE collectColors(_, _)
RECURSIVE CollectChildren(_, _, _)
CollectChildren(children, i, colors) ==
    IF i > Len(children) THEN colors
    ELSE CollectChildren(children, i + 1, collectColors(children[i], colors))

\* lines 337-346 without the strokes of lines 342-344
RECURSIVE collectColorsFillsOnly(_, _)
RECURSIVE CollectChildrenFillsOnly(_, _, _)
CollectChildrenFillsOnly(children, i, colors) ==
    IF i > Len(children) THEN colors
    ELSE CollectChildrenFillsOnly(children, i + 1,
                                  collectColorsFillsOnly(children[i], colors))

collectColorsFillsOnly(shapeTree, colors) ==
    IF shapeTree = NullTree THEN colors
    ELSE CollectChildrenFillsOnly(shapeTree.children, 1,
                                  PushNew(ShapeFills(shapeTree), colors))

collectColors(shapeTree, colors) ==
    IF shapeTree = NullTree THEN colors
    ELSE CollectChildren(shapeTree.children, 1,
             PushNew(ShapeStrokes(shapeTree), PushNew(ShapeFills(shapeTree), colors)))

\* lines 351-356
RECURSIVE countVectors(_)
RECURSIVE CountChildren(_, _)
CountChildren(children, i) ==
    IF i > Len(children) THEN 0
    ELSE countVectors(children[i]) + CountChildren(children, i + 1)

countVectors(shapeTree) ==
    IF shapeTree = NullTree THEN 0
    ELSE (IF ShapeType(shapeTree) = "VECTOR" THEN 1 ELSE 0)
         + CountChildren(shapeTree.children, 1)

\* lines 396-433 with one more return: a FRAME whose parent is already in the
\* inventory is left out
ClassifyStepSkipNested ==
    /\ gpc = "classify"
    /\ fi <= Len(nodes)
    /\ LET n   == nodes[fi]
           w   == MathRound(n.size.x)
           h   == MathRound(n.size.y)
           key == guidKey(n.guid)
       IN  IF \/ n.type # "FRAME"
              \/ n.size = NoSize
              \/ w > MaxIconSide \/ h > MaxIconSide
              \/ key = NullKey
              \/ ~hasVectorDescendant(key, VectorSearchDepth)
              \/ \E e \in 1..Len(iconContainers) :
                    iconContainers[e].guid = guidKey(n.parentIndex.guid)
           THEN /\ fi' = fi + 1
                /\ UNCHANGED <<gpc, iconContainers>>
           ELSE LET shapeTree == buildShapeTree(key, 0)
                IN  IF shapeTree = StackOverflow
                    THEN /\ gpc' = "threw"
                         /\ UNCHANGED <<fi, iconContainers>>
                    ELSE IF shapeTree = NullTree
                    THEN /\ fi' = fi + 1
                         /\ UNCHANGED <<gpc, iconContainers>>
                    ELSE /\ iconContainers' = Append(iconContainers,
                                [rec |-> fi, guid |-> key, size |-> [w |-> w, h |-> h],
                                 primaryColor |-> extractPrimaryColor(shapeTree),
                                 allColors |-> collectColors(shapeTree, <<>>),
                                 vectorCount |-> countVectors(shapeTree),
                                 shapeTree |-> shapeTree])
                         /\ fi' = fi + 1
                         /\ UNCHANGED gpc
    /\ UNCHANGED <<nodes, bi, nodeMap, childrenMap>>
    /\ UNCHANGED <<dvars, hvars, ivars>>

\* lines 396-433: the filter and one iteration of its forEach.  A record that
\* is not a FRAME is dropped by the filter; a return leaves the inventory as
\* it is; an uncaught RangeError ends the run.
ClassifyStep ==
    /\ gpc = "classify"
    /\ fi <= Len(nodes)
    /\ LET n   == nodes[fi]
           w   == MathRound(n.size.x)
           h   == MathRound(n.size.y)
           key == guidKey(n.guid)
       IN  IF \/ n.type # "FRAME"
              \/ n.size = NoSize
              \/ w > MaxIconSide \/ h > MaxIconSide
              \/ key = NullKey
              \/ ~hasVectorDescendant(key, VectorSearchDepth)
           THEN /\ fi' = fi + 1
                /\ UNCHANGED <<gpc, iconContainers>>
           ELSE LET shapeTree == buildShapeTree(key, 0)
                IN  IF shapeTree = StackOverflow
                    THEN /\ gpc' = "threw"
                         /\ UNCHANGED <<fi, iconContainers>>
                    ELSE IF shapeTree = NullTree
                    THEN /\ fi' = fi + 1
                         /\ UNCHANGED <<gpc, iconContainers>>
                    ELSE /\ iconContainers' = Append(iconContainers,
                                [rec |-> fi, guid |-> key, size |-> [w |-> w, h |-> h],
                                 primaryColor |-> extractPrimaryColor(shapeTree),
                                 allColors |-> collectColors(shapeTree, <<>>),
                                 vectorCount |-> countVectors(shapeTree),
                                 shapeTree |-> shapeTree])
                         /\ fi' = fi + 1
                         /\ UNCHANGED gpc
    /\ UNCHANGED <<nodes, bi, nodeMap, childrenMap>>
    /\ UNCHANGED <<dvars, hvars, ivars>>

\* line 206 reached: the maps are built, the classification starts
VectorsBuilt ==
    /\ gpc = "build"
    /\ bi > Len(nodes)
    /\ gpc' = "classify"
    /\ fi' = 1
    /\ UNCHANGED <<nodes, bi, nodeMap, childrenMap, iconContainers>>
    /\ UNCHANGED <<dvars, hvars, ivars>>

\* lines 437-484: the inventory is printed or written
OutputInventory ==
    /\ gpc = "classify"
    /\ fi > Len(nodes)
    /\ gpc' = "done"
    /\ UNCHANGED <<nodes, bi, nodeMap, childrenMap, fi, iconContainers>>
    /\ UNCHANGED <<dvars, hvars, ivars>>

\* the records a list is made of
Guid(s, l) == [sessionID |-> s, localID |-> l]
Under(g, position) == [guid |-> g, position |-> position]
Rec(g, parentIndex, type, size, opacity) ==
    [guid |-> g, parentIndex |-> parentIndex, type |-> type, size |-> size,
     opacity |-> opacity, fillPaints |-> <<>>, strokePaints |-> <<>>]

\* a paint with a colour, a paint without one, and a record with its paints
Solid(c) == [color |-> c]
Gradient == [color |-> NoColor]
Painted(n, fills, strokes) ==
    [n EXCEPT !.fillPaints = fills, !.strokePaints = strokes]

ListsOver(records, n) == UNION { [1..k -> records] : k \in 0..n }

\* ------------------------------------------------------------------------
\* Node-change lists given to extract_vectors.cjs
\* ------------------------------------------------------------------------

G1 == Guid(0, 1)
G2 == Guid(0, 2)
G3 == Guid(0, 3)
\* the id of no record
G9 == Guid(0, 9)

NoPlace == NoParentIndex

VectorRecords ==
    { Rec(G1, NoPlace, "FRAME", [x |-> 320, y |-> 324], NoOpacity),   \* 32 x 32.4
      Rec(G1, NoPlace, "FRAME", [x |-> 325, y |-> 200], NoOpacity),   \* 32.5 x 20
      Rec(G1, NoPlace, "FRAME", NoSize, NoOpacity),
      Rec(G1, Under(G1, <<97>>), "FRAME", [x |-> 320, y |-> 320], NoOpacity),
      Rec(NoGuid, NoPlace, "FRAME", [x |-> 320, y |-> 320], NoOpacity),
      Rec(G2, Under(G1, <<97>>), "FRAME", [x |-> 200, y |-> 200], NoOpacity),
      Rec(G2, Under(G1, <<97>>), "VECTOR", [x |-> 160, y |-> 160], NoOpacity),
      Rec(G3, Under(G2, <<97>>), "VECTOR", [x |-> 160, y |-> 160], NoOpacity),
      Rec(NoGuid, Under(G1, <<98>>), "VECTOR", NoSize, NoOpacity),
      Rec(G2, Under(G1, <<98>>), "BOOLEAN_OPERATION", NoSize, 10000),
      Rec(G2, Under(G9, <<97>>), "TEXT", NoSize, NoOpacity),
      Rec(G1, NoPlace, "ROUNDED_RECTANGLE", [x |-> 320, y |-> 320], 1),
      Rec(G2, Under(G1, <<97>>), "ROUNDED_RECTANGLE", [x |-> 320, y |-> 320], 1) }

\* the longest lists over VectorRecords
MaxNodes == 3

\* the deepest chain below a FRAME
MaxChain == 6

\* a FRAME, hops - 1 GROUPs below one another, and a leaf of the given type
ChainAt(k, hops, leafType) ==
    IF k = 0 THEN Rec(Guid(1, 0), NoPlace, "FRAME", [x |-> 240, y |-> 240], NoOpacity)
    ELSE Rec(Guid(1, k), Under(Guid(1, k - 1), <<97>>),
             IF k = hops THEN leafType ELSE "GROUP", NoSize, NoOpacity)

Chain(hops, leafType, reversed) ==
    [i \in 1..(hops + 1) |->
        ChainAt(IF reversed THEN hops + 1 - i ELSE i - 1, hops, leafType)]

ChainLists ==
    { Chain(hops, leafType, reversed) :
        hops \in 1..MaxChain, leafType \in {"VECTOR", "BOOLEAN_OPERATION", "TEXT"},
        reversed \in BOOLEAN }

VectorInputs == ListsOver(VectorRecords, MaxNodes) \cup ChainLists

HierarchyIdle ==
    /\ maxDepth = 0
    /\ topKey = NullKey
    /\ ti = 0
    /\ stack = <<>>
    /\ output = <<>>

InitVectors ==
    /\ HashIdle
    /\ DecodeIdle
    /\ nodes \in VectorInputs
    /\ gpc = "build"
    /\ bi = 1
    /\ nodeMap = <<>>
    /\ childrenMap = <<>>
    /\ fi = 0
    /\ iconContainers = <<>>
    /\ HierarchyIdle

NextVectors ==
    \/ BuildStep
    \/ VectorsBuilt
    \/ ClassifyStep
    \/ OutputInventory

SpecVectors == InitVectors /\ [][NextVectors]_vars

\* The same script on the lists over VectorRecords, which hold a record that is
\* its own parent.  The script runs on by itself: a step that can be taken is
\* taken.
InitCycles == InitVectors /\ nodes \in ListsOver(VectorRecords, MaxNodes)

SpecVectorsFair == InitCycles /\ [][NextVectors]_vars /\ WF_vars(NextVectors)

\* ------------------------------------------------------------------------
\* Node-change lists with paints given to extract_vectors.cjs: one icon
\* container and the shapes below it
\* ------------------------------------------------------------------------

G4 == Guid(0, 4)

Red == [r |-> 510, g |-> 0, b |-> 0]
\* prints as the same string as Red: #ff0000
RedIsh == [r |-> 509, g |-> NoChannel, b |-> 0]
Green == [r |-> 0, g |-> 510, b |-> 0]
Blue == [r |-> 0, g |-> 0, b |-> 510]
\* #070828
Dark == [r |-> 14, g |-> 16, b |-> 80]

IconSize == [x |-> 240, y |-> 240]

IconFrames ==
    { Rec(G1, NoPlace, "FRAME", IconSize, NoOpacity),
      Painted(Rec(G1, NoPlace, "FRAME", IconSize, NoOpacity),
              <<Solid(Green)>>, <<Solid(Dark)>>) }

IconRecords ==
    { Painted(Rec(G2, Under(G1, <<97>>), "BOOLEAN_OPERATION", NoSize, NoOpacity),
              <<Solid(Blue)>>, <<>>),
      Painted(Rec(G2, Under(G1, <<97>>), "BOOLEAN_OPERATION", NoSize, NoOpacity),
              <<Gradient>>, <<Solid(Dark)>>),
      Painted(Rec(G3, Under(G2, <<97>>), "VECTOR", NoSize, NoOpacity),
              <<Solid(Red)>>, <<Solid(Blue)>>),
      Painted(Rec(G3, Under(G2, <<97>>), "VECTOR", NoSize, NoOpacity),
              <<>>, <<Solid(Dark)>>),
      Painted(Rec(G3, Under(G1, <<98>>), "VECTOR", NoSize, NoOpacity),
              <<Gradient, Solid(RedIsh)>>, <<Solid(Red)>>),
      Rec(G3, Under(G1, <<98>>), "VECTOR", NoSize, NoOpacity),
      Painted(Rec(G2, Under(G1, <<97>>), "ROUNDED_RECTANGLE", IconSize, NoOpacity),
              <<Solid(Green)>>, <<Solid(Green)>>),
      Painted(Rec(G2, Under(G1, <<97>>), "ROUNDED_RECTANGLE", IconSize, 1),
              <<Solid(Green)>>, <<Solid(Green)>>),
      Painted(Rec(G4, Under(G1, <<99>>), "ELLIPSE", NoSize, NoOpacity),
              <<Solid(Red)>>, <<>>),
      Painted(Rec(G4, Under(G3, <<97>>), "ELLIPSE", NoSize, NoOpacity),
              <<>>, <<Solid(Blue)>>),
      Painted(Rec(G4, Under(G2, <<98>>), "GROUP", NoSize, NoOpacity),
              <<Solid(Green)>>, <<>>),
      Painted(Rec(G4, Under(G1, <<99>>), "VECTOR", NoSize, NoOpacity),
              <<Solid(Red)>>, <<>>) }

\* the most records below the icon container
MaxShapes == 3

IconInputs ==
    { <<f>> \o shapes : f \in IconFrames, shapes \in ListsOver(IconRecords, MaxShapes) }

InitIcons ==
    /\ HashIdle
    /\ DecodeIdle
    /\ nodes \in IconInputs
    /\ gpc = "build"
    /\ bi = 1
    /\ nodeMap = <<>>
    /\ childrenMap = <<>>
    /\ fi = 0
    /\ iconContainers = <<>>
    /\ HierarchyIdle

SpecIcons == InitIcons /\ [][NextVectors]_vars

\* ------------------------------------------------------------------------
\* extract_hierarchy.cjs
\* ------------------------------------------------------------------------

\* String.prototype.localeCompare on strings of ASCII letters, given as their
\* character codes: the letters are compared first without regard to case
\* (a = A < b = B < ...), a string before any longer string it starts; strings
\* equal so far are then compared by case, a lower-case letter before its
\* upper-case one.  (Unicode collation, root locale.)
PrimaryWeight(c) == IF c >= 97 THEN c - 97 ELSE c - 65
TertiaryWeight(c) == IF c >= 97 THEN 0 ELSE 1

RECURSIVE CompareWeights(_, _)
CompareWeights(s, t) ==
    IF s = <<>> /\ t = <<>> THEN 0
    ELSE IF s = <<>> THEN -1
    ELSE IF t = <<>> THEN 1
    ELSE IF Head(s) < Head(t) THEN -1
    ELSE IF Head(s) > Head(t) THEN 1
    ELSE CompareWeights(Tail(s), Tail(t))

localeCompare(s, t) ==
    LET primary == CompareWeights([i \in 1..Len(s) |-> PrimaryWeight(s[i])],
                                  [i \in 1..Len(t) |-> PrimaryWeight(t[i])])
    IN  IF primary # 0 THEN primary
        ELSE CompareWeights([i \in 1..Len(s) |-> TertiaryWeight(s[i])],
                            [i \in 1..Len(t) |-> TertiaryWeight(t[i])])

\* lines 99-103: the comparator; pa || '' turns an undefined position into ''
ComparePosition(a, b) ==
    LET pa == nodes[a].parentIndex.position
        pb == nodes[b].parentIndex.position
    IN  localeCompare(IF pa = NoPosition THEN <<>> ELSE pa,
                      IF pb = NoPosition THEN <<>> ELSE pb)

\* Array.prototype.sort with that comparator: a stable sort
RECURSIVE InsertSorted(_, _)
InsertSorted(sorted, x) ==
    IF sorted = <<>> THEN <<x>>
    ELSE IF ComparePosition(sorted[Len(sorted)], x) <= 0 THEN Append(sorted, x)
    ELSE Append(InsertSorted(SubSeq(sorted, 1, Len(sorted) - 1), x), sorted[Len(sorted)])

RECURSIVE SortChildren(_)
SortChildren(children) ==
    IF children = <<>> THEN <<>>
    ELSE InsertSorted(SortChildren(SubSeq(children, 1, Len(children) - 1)),
                      children[Len(children)])

\* line 44 reached: the maps are built
HierarchyBuilt ==
    /\ gpc = "build"
    /\ bi > Len(nodes)
    /\ gpc' = "canvas"
    /\ UNCHANGED <<nodes, bi, nodeMap, childrenMap>>
    /\ UNCHANGED <<dvars, vvars, hvars, ivars>>

\* lines 46-49 with the last CANVAS record taken instead of the first
FindLastCanvas ==
    /\ gpc = "canvas"
    /\ LET found == { i \in 1..Len(nodes) : nodes[i].type = "CANVAS" }
       IN  IF found = {}
           THEN /\ topKey' = NullKey
                /\ ti' = 1
                /\ gpc' = "top"
           ELSE LET canvas == nodes[CHOOSE i \in found : \A j \in found : i >= j]
                IN  IF canvas.guid = NoGuid
                    THEN /\ gpc' = "threw"
                         /\ UNCHANGED <<topKey, ti>>
                    ELSE /\ topKey' = guidKey(canvas.guid)
                         /\ ti' = 1
                         /\ gpc' = "top"
    /\ UNCHANGED <<nodes, bi, nodeMap, childrenMap, maxDepth, stack, output>>
    /\ UNCHANGED <<dvars, vvars, ivars>>

\* lines 46-49; canvas.guid.sessionID throws a TypeError when the first CANVAS
\* record has no guid; childrenMap[null] is undefined
FindCanvas ==
    /\ gpc = "canvas"
    /\ LET found == { i \in 1..Len(nodes) : nodes[i].type = "CANVAS" }
       IN  IF found = {}
           THEN /\ topKey' = NullKey
                /\ ti' = 1
                /\ gpc' = "top"
           ELSE LET canvas == nodes[CHOOSE i \in found : \A j \in found : i <= j]
                IN  IF canvas.guid = NoGuid
                    THEN /\ gpc' = "threw"
                         /\ UNCHANGED <<topKey, ti>>
                    ELSE /\ topKey' = guidKey(canvas.guid)
                         /\ ti' = 1
                         /\ gpc' = "top"
    /\ UNCHANGED <<nodes, bi, nodeMap, childrenMap, maxDepth, stack, output>>
    /\ UNCHANGED <<dvars, vvars, ivars>>

\* a printTree call in progress: the record n, its indent, and where the call is
Call(n, indent) == [n |-> n, indent |-> indent, stage |-> "enter", i |-> 0]

\* the children array of a call: key ? (childrenMap[key] || []) : []
CallChildren(call) == ChildrenOf(childrenMap, guidKey(nodes[call.n].guid))

\* the innermost call returns; after a top-level call line 109 pushes '' and
\* the topFrames.forEach goes on
Return(out) ==
    /\ stack' = SubSeq(stack, 1, Len(stack) - 1)
    /\ IF Len(stack) = 1
       THEN /\ output' = Append(out, [kind |-> "blank", rec |-> 0, indent |-> 0])
            /\ ti' = ti + 1
       ELSE /\ output' = out
            /\ UNCHANGED ti

\* lines 107-108: topFrames.forEach calls printTree(frame, 0, maxDepth)
PrintTopFrame ==
    /\ gpc = "top"
    /\ stack = <<>>
    /\ ti <= Len(ChildrenOf(childrenMap, topKey))
    /\ stack' = <<Call(ChildrenOf(childrenMap, topKey)[ti], 0)>>
    /\ UNCHANGED <<nodes, gpc, bi, nodeMap, childrenMap, maxDepth, topKey, ti, output>>
    /\ UNCHANGED <<dvars, vvars, ivars>>

\* lines 90-103 with the test indent > depth + 1
PrintTreeEnterDeeper ==
    /\ gpc = "top"
    /\ stack # <<>>
    /\ LET call == stack[Len(stack)]
           key  == guidKey(nodes[call.n].guid)
           cc   == Len(CallChildren(call))
       IN  /\ call.stage = "enter"
           /\ IF call.indent > maxDepth + 1
              THEN /\ Return(IF cc > 0
                             THEN Append(output, [kind |-> "more", rec |-> cc,
                                                  indent |-> call.indent])
                             ELSE output)
                   /\ UNCHANGED childrenMap
              ELSE /\ output' = Append(output, [kind |-> "node", rec |-> call.n,
                                               indent |-> call.indent])
                   /\ childrenMap' =
                          IF key \in DOMAIN childrenMap
                          THEN [childrenMap EXCEPT ![key] = SortChildren(@)]
                          ELSE childrenMap
                   /\ stack' = [stack EXCEPT ![Len(stack)] =
                                   [call EXCEPT !.stage = "loop", !.i = 1]]
                   /\ UNCHANGED ti
    /\ UNCHANGED <<nodes, gpc, bi, nodeMap, maxDepth, topKey>>
    /\ UNCHANGED <<dvars, vvars, ivars>>

\* lines 90-103: the start of a printTree call
PrintTreeEnter ==
    /\ gpc = "top"
    /\ stack # <<>>
    /\ LET call == stack[Len(stack)]
           key  == guidKey(nodes[call.n].guid)
           cc   == Len(CallChildren(call))
       IN  /\ call.stage = "enter"
           /\ IF call.indent > maxDepth
              THEN /\ Return(IF cc > 0
                             THEN Append(output, [kind |-> "more", rec |-> cc,
                                                  indent |-> call.indent])
                             ELSE output)
                   /\ UNCHANGED childrenMap
              ELSE /\ output' = Append(output, [kind |-> "node", rec |-> call.n,
                                               indent |-> call.indent])
                   /\ childrenMap' =
                          IF key \in DOMAIN childrenMap
                          THEN [childrenMap EXCEPT ![key] = SortChildren(@)]
                          ELSE childrenMap
                   /\ stack' = [stack EXCEPT ![Len(stack)] =
                                   [call EXCEPT !.stage = "loop", !.i = 1]]
                   /\ UNCHANGED ti
    /\ UNCHANGED <<nodes, gpc, bi, nodeMap, maxDepth, topKey>>
    /\ UNCHANGED <<dvars, vvars, ivars>>

\* line 104: children.forEach calls printTree(child, indent + 1, depth)
PrintTreeChild ==
    /\ gpc = "top"
    /\ stack # <<>>
    /\ LET call == stack[Len(stack)]
       IN  /\ call.stage = "loop"
           /\ call.i <= Len(CallChildren(call))
           /\ stack' = Append([stack EXCEPT ![Len(stack)] = [call EXCEPT !.i = call.i + 1]],
                              Call(CallChildren(call)[call.i], call.indent + 1))
    /\ UNCHANGED <<nodes, gpc, bi, nodeMap, childrenMap, maxDepth, topKey, ti, output>>
    /\ UNCHANGED <<dvars, vvars, ivars>>

\* line 105: the forEach of a call is over
PrintTreeReturn ==
    /\ gpc = "top"
    /\ stack # <<>>
    /\ LET call == stack[Len(stack)]
       IN  /\ call.stage = "loop"
           /\ call.i > Len(CallChildren(call))
           /\ Return(output)
    /\ UNCHANGED <<nodes, gpc, bi, nodeMap, childrenMap, maxDepth, topKey>>
    /\ UNCHANGED <<dvars, vvars, ivars>>

\* lines 112-113
WriteTree ==
    /\ gpc = "top"
    /\ stack = <<>>
    /\ ti > Len(ChildrenOf(childrenMap, topKey))
    /\ gpc' = "done"
    /\ UNCHANGED <<nodes, bi, nodeMap, childrenMap>>
    /\ UNCHANGED <<dvars, vvars, hvars, ivars>>

\* ------------------------------------------------------------------------
\* Node-change lists given to extract_hierarchy.cjs
\* ------------------------------------------------------------------------

Plain(g, parentIndex, type) == Rec(g, parentIndex, type, NoSize, NoOpacity)

HierarchyRecords ==
    { Plain(G1, NoPlace, "CANVAS"),
      Plain(NoGuid, NoPlace, "CANVAS"),
      Plain(G3, NoPlace, "CANVAS"),
      Plain(G1, Under(G2, <<97>>), "CANVAS"),
      Plain(G2, Under(G1, <<98>>), "FRAME"),
      Plain(G2, Under(G1, <<97>>), "FRAME"),
      Plain(G3, Under(G1, <<97>>), "FRAME"),
      Plain(G3, Under(G2, <<66>>), "FRAME"),
      Plain(G3, Under(G2, <<97>>), "FRAME"),
      Plain(NoGuid, Under(G2, NoPosition), "FRAME"),
      Plain(G2, Under(G2, <<>>), "FRAME"),
      Plain(G3, Under(G9, <<97>>), "FRAME"),
      Plain(G3, NoPlace, "FRAME") }

\* the order keys of siblings: none, '', a, B, b, ab
PositionKeys == { NoPosition, <<>>, <<97>>, <<66>>, <<98>>, <<97, 98>> }

\* the most siblings under one parent
MaxSiblings == 3

\* a canvas, a frame in it, and siblings with the given keys under one of them
Siblings(parent, keys) ==
    <<Plain(G1, NoPlace, "CANVAS"), Plain(G2, Under(G1, <<97>>), "FRAME")>>
    \o [j \in 1..Len(keys) |-> Plain(Guid(2, j), Under(parent, keys[j]), "FRAME")]

SiblingLists ==
    { Siblings(parent, keys) :
        parent \in {G1, G2},
        keys \in UNION { [1..k -> PositionKeys] : k \in 1..MaxSiblings } }

HierarchyInputs == ListsOver(HierarchyRecords, MaxNodes) \cup SiblingLists

\* the largest depth argument (the smallest is -1)
MaxDepthArg == 2

InitHierarchy ==
    /\ HashIdle
    /\ DecodeIdle
    /\ nodes \in HierarchyInputs
    /\ gpc = "build"
    /\ bi = 1
    /\ nodeMap = <<>>
    /\ childrenMap = <<>>
    /\ fi = 0
    /\ iconContainers = <<>>
    /\ maxDepth \in -1..MaxDepthArg
    /\ topKey = NullKey
    /\ ti = 0
    /\ stack = <<>>
    /\ output = <<>>

NextHierarchy ==
    \/ BuildStep
    \/ HierarchyBuilt
    \/ FindCanvas
    \/ PrintTopFrame
    \/ PrintTreeEnter
    \/ PrintTreeChild
    \/ PrintTreeReturn
    \/ WriteTree

SpecHierarchy == InitHierarchy /\ [][NextHierarchy]_vars

\* records that make parent cycles below the canvas: a canvas under its own
\* frame, and a frame that is its own parent
CycleRecords ==
    { Plain(G1, NoPlace, "CANVAS"),
      Plain(G1, Under(G2, <<97>>), "CANVAS"),
      Plain(G2, Under(G1, <<98>>), "FRAME"),
      Plain(G2, Under(G2, <<>>), "FRAME"),
      Plain(G3, Under(G2, <<97>>), "FRAME") }

\* The same script on the lists over CycleRecords.  The script runs on by
\* itself: a step that can be taken is taken.
InitHierarchyCycles == InitHierarchy /\ nodes \in ListsOver(CycleRecords, MaxNodes)

SpecHierarchyFair ==
    InitHierarchyCycles /\ [][NextHierarchy]_vars /\ WF_vars(NextHierarchy)

\* ------------------------------------------------------------------------
\* The image hash of one fill: extract_images.cjs and extract_layout.cjs
\* ------------------------------------------------------------------------

\* the number of bytes of a hash that either script renders
HashBytes == 20

\* Number.prototype.toString(16) of a non-negative integer, most significant
\* digit first; a digit is written as its value, 10..15 being a..f
RECURSIVE toString16(_)
toString16(n) ==
    IF n < 16 THEN <<n>> ELSE toString16(n \div 16) \o <<n % 16>>

\* String.prototype.padStart(2, '0')
padStart2(s) == IF Len(s) < 2 THEN <<0>> \o s ELSE s

\* hash[i] for the index i of JavaScript: the same for an Array and for an
\* Object with numeric keys; <<>> stands for undefined
HashAt(h, i) == IF i + 1 <= Len(h.bytes) THEN <<h.bytes[i + 1]>> ELSE <<>>

\* the loop of hashToHex of extract_images.cjs from index i on: it stops at
\* 20 and at the first index that is undefined
RECURSIVE ImagesLoop(_, _)
ImagesLoop(h, i) ==
    IF i >= HashBytes \/ HashAt(h, i) = <<>>
    THEN <<>>
    ELSE padStart2(toString16(HashAt(h, i)[1])) \o ImagesLoop(h, i + 1)

\* hashToHex of extract_images.cjs; the empty string becomes null
hashToHex(h) ==
    IF h = NoHash THEN NullHex
    ELSE IF ImagesLoop(h, 0) = <<>> THEN NullHex
    ELSE ImagesLoop(h, 0)

\* the loop of hashToHex of extract_layout.cjs from index i on: it stops at
\* hash.length and at 20
RECURSIVE LayoutLoop(_, _)
LayoutLoop(h, i) ==
    IF i >= Len(h.bytes) \/ i >= HashBytes
    THEN <<>>
    ELSE padStart2(toString16(h.bytes[i + 1])) \o LayoutLoop(h, i + 1)

\* hashToHex of extract_layout.cjs; anything but an Array becomes null
layoutHashToHex(h) ==
    IF h = NoHash \/ h.kind # "array" THEN NullHex
    ELSE LayoutLoop(h, 0)

\* extract_images.cjs on the fill: an entry of the mapping is made when the
\* hash is there and its hex is not empty
ImagesMapFill ==
    /\ imagesHex = NotRun
    /\ imagesHex' = IF hash = NoHash \/ hashToHex(hash) = NullHex
                    THEN NoImageHash
                    ELSE hashToHex(hash)
    /\ UNCHANGED <<hash, layoutHex>>
    /\ UNCHANGED <<dvars, gvars, vvars, hvars>>

\* extract_layout.cjs on the fill: imageHash is set when the hash is there
LayoutFill ==
    /\ layoutHex = NotRun
    /\ layoutHex' = IF hash = NoHash THEN NoImageHash ELSE layoutHashToHex(hash)
    /\ UNCHANGED <<hash, imagesHex>>
    /\ UNCHANGED <<dvars, gvars, vvars, hvars>>

\* byte values on both sides of the one-digit / two-digit boundary
SampleBytes == {0, 9, 10, 15, 16, 171, 255}

\* byte strings of length n that are c everywhere but b at one place
BytesOfLength(n) ==
    { [i \in 1..n |-> IF i = k THEN b ELSE c] :
        k \in 1..n, b \in SampleBytes, c \in SampleBytes }

\* hashes of 20 bytes, one short, one long, and empty, as an Array and as an
\* Object with numeric keys, and the fill without a hash
HashInputs ==
    {NoHash} \cup
    { [kind |-> kd, bytes |-> bs] :
        kd \in {"array", "object"},
        bs \in {<<>>} \cup BytesOfLength(HashBytes - 1)
                      \cup BytesOfLength(HashBytes)
                      \cup BytesOfLength(HashBytes + 1) }

InitHash ==
    /\ DecodeIdle
    /\ NodesIdle
    /\ hash \in HashInputs
    /\ imagesHex = NotRun
    /\ layoutHex = NotRun

NextHash ==
    \/ ImagesMapFill
    \/ LayoutFill

SpecHash == InitHash /\ [][NextHash]_vars

\* ------------------------------------------------------------------------
\* Properties of the decode run
\* ------------------------------------------------------------------------

\* the 8 bytes of the ASCII text fig-kiwi
MagicBytes == <<102, 105, 103, 45, 107, 105, 119, 105>>

HasMagicBytes(b) == Len(b) >= 8 /\ \A i \in 1..8 : b[i] = MagicBytes[i]

AfterChunkLoop ==
    pc \in {"count", "inflateSchema", "decodeSchema", "message", "decodeMessage",
            "write", "done"}
    \/ (pc = "exit1" /\ version # NoVersion)
    \/ (pc = "threw" /\ version # NoVersion)

Decompressing == pc \in {"inflateSchema", "decodeSchema", "message", "decodeMessage",
                         "write", "done"}

\* The index of the first chunk whose declared length exceeds the bytes after
\* its length field, reading length-prefixed chunks from byte off on while at
\* least 4 bytes remain; -1 when there is none.
RECURSIVE TruncatedIndex(_, _, _)
TruncatedIndex(b, off, k) ==
    IF Len(b) - off < 4 THEN -1
    ELSE LET hi == b[off + 4] * 256 + b[off + 3]
             lo == b[off + 2] * 256 + b[off + 1]
         IN  IF hi > 0 \/ lo > Len(b) - off - 4 THEN k
             ELSE TruncatedIndex(b, off + 4 + lo, k + 1)

IsTruncatedInput == HasMagicBytes(buf) /\ Len(buf) >= 12 /\ TruncatedIndex(buf, 12, 0) >= 0

\* C1: Round-trip framing.  For every version v and chunks c1..cn, n >= 2, each of
\* any length including 0, the chunk reader applied to
\* 'fig-kiwi' + LE32(v) + LE32(len(c1)) + c1 + ... + LE32(len(cn)) + cn
\* returns version v and exactly the chunks c1..cn in that order.
RoundTripFraming ==
    pc = "count" =>
        \A v \in Versions, cs \in ChunkLists :
            (Len(cs) >= 2 /\ buf = Assemble(MagicBytes, v, cs, <<>>))
                => (version = v /\ chunks = cs)

\* C2 as stated: an input with a valid prelude and version in which some chunk's
\* declared length exceeds the bytes that remain, at any chunk index, ends in a
\* failure and no document is written.
TruncatedInputAlwaysFails ==
    IsTruncatedInput => (written = 0 /\ pc \notin {"write", "done"})

\* C2 as amended: when the chunk cut short is chunk 0 or chunk 1 the run fails
\* before any decompression and nothing is written; when it is chunk 2 or later
\* the reader keeps the complete chunks before it and the chunk count check passes.
TruncatedEarlyFails ==
    IsTruncatedInput =>
        LET k == TruncatedIndex(buf, 12, 0)
        IN  /\ k < 2 => (written = 0 /\ calls = <<>> /\ ~Decompressing)
            /\ (k >= 2 /\ AfterChunkLoop) =>
                (Len(chunks) = k /\ (pc = "exit1" => calls # <<>>))

\* C2 witness: the reader met a chunk cut short at index 1 and the run exited.
TruncatedEarlyWitness ==
    /\ IsTruncatedInput
    /\ TruncatedIndex(buf, 12, 0) = 1
    /\ truncated
    /\ pc = "exit1"

\* C3: whenever fewer than 2 complete chunks were read, the decode fails before any
\* decompression or schema decoding is attempted and no output is written.
InsufficientChunksFail ==
    Len(chunks) < 2 => (calls = <<>> /\ written = 0 /\ ~Decompressing)

\* C3 witness: one complete chunk was read, the next was cut short, the run exited.
InsufficientChunksWitness ==
    pc = "exit1" /\ Len(chunks) = 1 /\ truncated

\* C4: when the first 8 bytes are not exactly 'fig-kiwi' (also when the input is
\* shorter than 8 bytes) the decode fails at the prelude check: the version is not
\* read, no chunk is read and no output is written.
InvalidPreludeFails ==
    ~HasMagicBytes(buf) =>
        /\ pc \in {"prelude", "exit1"}
        /\ version = NoVersion
        /\ offset = 0
        /\ chunks = <<>>
        /\ calls = <<>>
        /\ written = 0

\* C4 witness: an input whose first 7 bytes are right and whose 8th is not was
\* rejected.
InvalidPreludeWitness ==
    /\ pc = "exit1"
    /\ Len(buf) >= 8
    /\ SubSeq(buf, 1, 7) = SubSeq(MagicBytes, 1, 7)
    /\ buf[8] # MagicBytes[8]

StartsWithZstdFrame(c) ==
    Len(c) >= 4 /\ c[1] = 40 /\ c[2] = 181 /\ c[3] = 47 /\ c[4] = 253

\* C5: chunk 0 is always given to raw-deflate whatever its first bytes are;
\* chunk 1 is given to the zstd decompressor if and only if it has at least 4
\* bytes and they are 28 B5 2F FD, and to raw-deflate otherwise; only a zstd
\* framed chunk 1 can stop the run for want of the zstd decoder.
CodecDispatch ==
    /\ \A i \in 1..Len(calls) :
          /\ calls[i].chunk = 0 => (i = 1 /\ calls[i].codec = "deflate-raw")
          /\ calls[i].chunk = 1 =>
                /\ i = 2
                /\ calls[i].codec = IF StartsWithZstdFrame(chunks[2])
                                    THEN "zstd" ELSE "deflate-raw"
    /\ pc \in {"decodeMessage", "write", "done"} => Len(calls) = 2
    /\ (pc = "exit1" /\ calls # <<>>) => (StartsWithZstdFrame(chunks[2]) /\ ~fzstd)

\* C5 witness: both chunks start with the zstd magic; chunk 0 went to raw-deflate
\* and chunk 1 to zstd.
CodecDispatchWitness ==
    /\ Len(calls) = 2
    /\ StartsWithZstdFrame(chunks[1])
    /\ calls[1] = [chunk |-> 0, codec |-> "deflate-raw"]
    /\ calls[2] = [chunk |-> 1, codec |-> "zstd"]

\* the decompression calls of a run that reached the message decoding
BothChunksDecompressed ==
    /\ Len(calls) = 2
    /\ calls[1] = [chunk |-> 0, codec |-> "deflate-raw"]
    /\ calls[2].chunk = 1

\* C18: in every decode run the output document is written at most once, and
\* only after the prelude check, the chunk-count check, the decompression of
\* both chunks (with the zstd decoder available when chunk 1 is zstd-framed),
\* the schema decoding and the message decoding have all succeeded; a run in
\* which any of these stages fails writes nothing.
NoPartialOutput ==
    /\ [](/\ written \in {0, 1}
          /\ pc \in {"exit1", "threw"} => written = 0
          /\ pc \in {"write", "done"} =>
                /\ HasMagicBytes(buf)
                /\ Len(chunks) >= 2
                /\ BothChunksDecompressed
                /\ (isZstd(chunks[2]) => fzstd)
          /\ written = 1 => pc = "done")
    /\ [][/\ (written' # written => pc = "write" /\ written = 0 /\ written' = 1)
          /\ (pc \in {"exit1", "threw", "done"} => pc' = pc)
          /\ (pc' = "write" => pc = "decodeMessage")
          /\ (pc' = "decodeMessage" => pc = "message")
          /\ (pc' = "message" => pc = "decodeSchema")
          /\ (pc' = "decodeSchema" => pc = "inflateSchema")
          /\ (pc' = "inflateSchema" => pc = "count")
          /\ (pc' = "count" => pc = "loop")
          /\ (pc' = "loop" /\ pc # "loop" => pc = "version")
          /\ (pc' = "version" => pc = "prelude")]_vars

\* a document was written from a zstd-framed message chunk
DocumentWrittenWitness ==
    /\ written = 1
    /\ pc = "done"
    /\ isZstd(chunks[2])
    /\ fzstd

\* C28: in every state of the chunk loop 12 <= offset <= buffer length; every
\* 4-byte length read and every chunk slice lies inside the buffer; each stored
\* chunk has exactly its declared length; and each iteration either stops the
\* loop or advances offset by at least 4, so that the loop ends.
ChunkReaderBounds ==
    /\ [](pc = "loop" => (12 <= offset /\ offset <= Len(buf)))
    /\ [][pc = "loop" =>
            /\ pc' \in {"loop", "count"}
            /\ (pc' = "loop" \/ truncated') => offset + 4 <= Len(buf)
            /\ pc' = "loop" =>
                  LET size == getUint32(buf, offset)
                  IN  /\ offset' >= offset + 4
                      /\ size[1] = 0
                      /\ offset' = offset + 4 + size[2]
                      /\ offset' <= Len(buf)
                      /\ chunks' = Append(chunks, SubSeq(buf, offset + 5, offset'))
                      /\ Len(chunks'[Len(chunks')]) = size[2]]_vars

\* the loop has stored a chunk that is not empty and one that ends at the end
\* of the buffer
ChunkReaderWitness ==
    /\ pc = "loop"
    /\ Len(chunks) = 2
    /\ Len(chunks[1]) > 0
    /\ offset = Len(buf)

\* ------------------------------------------------------------------------
\* Properties of the node graph and of the icon inventory
\* ------------------------------------------------------------------------

MapsBuilt == gpc \in {"classify", "canvas", "top", "done", "threw"}

KeyOf(i) == guidKey(nodes[i].guid)
ParentKeyOf(i) == guidKey(nodes[i].parentIndex.guid)

\* how many entries of the child list of parent key pk carry the id key
Occurrences(pk, key) ==
    Cardinality({ j \in 1..Len(ChildrenOf(childrenMap, pk)) :
                    KeyOf(childrenMap[pk][j]) = key })

\* C6: after the graph is built from any node-change list, also one in which an
\* id occurs in more than one record, every node whose parentId resolves in the
\* node map has its id in the child list of that parent exactly once, and in no
\* other parent's child list.
GraphInvariant ==
    MapsBuilt =>
        \A key \in DOMAIN nodeMap :
            LET pk == ParentKeyOf(nodeMap[key])
            IN  pk \in DOMAIN nodeMap =>
                    /\ Occurrences(pk, key) = 1
                    /\ \A q \in DOMAIN childrenMap \ {pk} : Occurrences(q, key) = 0

\* the last record of the input list that carries the id key
LastRecord(key) ==
    CHOOSE i \in 1..Len(nodes) :
        /\ KeyOf(i) = key
        /\ \A j \in (i + 1)..Len(nodes) : KeyOf(j) # key

\* C7: when an id occurs in several records the graph holds only the last of
\* them: looking the id up yields the last record, and every record reached
\* through a child list is that last record, never an earlier overridden one.
LastWriteWins ==
    MapsBuilt =>
        /\ \A key \in DOMAIN nodeMap : nodeMap[key] = LastRecord(key)
        /\ \A pk \in DOMAIN childrenMap :
              \A j \in 1..Len(childrenMap[pk]) :
                  LET c == childrenMap[pk][j]
                  IN  KeyOf(c) # NullKey => c = LastRecord(KeyOf(c))

\* the records d parent-to-child hops below the node with the id key
RECURSIVE HopsBelow(_, _)
HopsBelow(key, d) ==
    IF d = 1 THEN { j \in 1..Len(nodes) : ParentKeyOf(j) = key }
    ELSE UNION { HopsBelow(KeyOf(j), d - 1) :
                    j \in { m \in HopsBelow(key, 1) : KeyOf(m) # NullKey } }

IsShape(j) == nodes[j].type \in {"VECTOR", "BOOLEAN_OPERATION"}

InInventory(i) == gpc = "done" /\ \E e \in 1..Len(iconContainers) : iconContainers[e].rec = i

\* C10: a node is in the icon inventory if and only if it is a FRAME, has an id
\* and a size, both of its dimensions are <= 32 (320 tenths), and at least one
\* VECTOR or BOOLEAN_OPERATION lies between 1 and 5 hops below it.
CandidateRule ==
    gpc \in {"done", "threw"} =>
        \A i \in 1..Len(nodes) :
            InInventory(i) <=>
                /\ nodes[i].type = "FRAME"
                /\ KeyOf(i) # NullKey
                /\ nodes[i].size # NoSize
                /\ nodes[i].size.x <= 320
                /\ nodes[i].size.y <= 320
                /\ \E d \in 1..5 : \E j \in HopsBelow(KeyOf(i), d) : IsShape(j)

\* C14: for every finite node-change list, also one with a node whose parent
\* id is its own id or with a longer parent cycle, the icon classification run
\* terminates: the vector-descendant search and the construction of each
\* candidate's shape tree finish, and the run reaches its output.
ClassificationTerminates == <>(gpc = "done")

\* C17: building the maps and classifying the icons never fails, whatever
\* optional fields the records lack and whatever parent references dangle.
ClassifierNeverFails == gpc # "threw"

\* ------------------------------------------------------------------------
\* Properties of the shape tree, the palette and the primary colour
\* ------------------------------------------------------------------------

\* the nodes of a shape tree: the tree itself and the nodes of its children
RECURSIVE ShapeNodes(_)
ShapeNodes(t) ==
    {t} \cup UNION { ShapeNodes(t.children[i]) : i \in 1..Len(t.children) }

\* the records below the node with the id key, any number of hops down
Below(key) == UNION { HopsBelow(key, d) : d \in 1..Len(nodes) }

\* the record i is the one the graph holds for its id
IsCurrent(i) == KeyOf(i) # NullKey /\ Lookup(nodeMap, KeyOf(i)) = i

\* the colour strings of the fills and strokes of record i
ColoursOf(i) ==
    { PaintColors(nodes[i].fillPaints)[k] : k \in 1..Len(PaintColors(nodes[i].fillPaints)) }
    \cup { PaintColors(nodes[i].strokePaints)[k] :
              k \in 1..Len(PaintColors(nodes[i].strokePaints)) }

Palette(ic) == { ic.allColors[k] : k \in 1..Len(ic.allColors) }

\* C11: for every ROUNDED_RECTANGLE with opacity below 0.01 inside a
\* candidate's subtree, the node itself is absent from the shape tree, but each
\* of its children that is not itself a transparent background is present in
\* the shape tree and its colours are in the palette.
TransparentBackgroundExclusion ==
    \A e \in 1..Len(iconContainers) :
        LET ic == iconContainers[e]
        IN  \A i \in Below(ic.guid) :
                (IsCurrent(i) /\ isTransparentBg(nodes[i])) =>
                    /\ \A t \in ShapeNodes(ic.shapeTree) : t.rec # i
                    /\ \A j \in HopsBelow(KeyOf(i), 1) :
                          (IsCurrent(j) /\ ~isTransparentBg(nodes[j])) =>
                              /\ \E t \in ShapeNodes(ic.shapeTree) : t.rec = j
                              /\ ColoursOf(j) \subseteq Palette(ic)

\* the shape-tree nodes of all inventory entries
InventoryNodes ==
    UNION { ShapeNodes(iconContainers[e].shapeTree) : e \in 1..Len(iconContainers) }

\* C12: for every shape-tree node of kind BOOLEAN_OPERATION that has at least
\* one colour fill, primary-colour extraction on that node returns its first
\* fill colour, whatever its descendants carry; a candidate whose first child
\* is such a node reports that colour.
BooleanFillWins ==
    /\ \A t \in InventoryNodes :
          (ShapeType(t) = "BOOLEAN_OPERATION" /\ ShapeFills(t) # <<>>) =>
              extractPrimaryColor(t) = ShapeFills(t)[1]
    /\ \A e \in 1..Len(iconContainers) :
          LET ic == iconContainers[e]
          IN  (/\ ic.shapeTree.children # <<>>
               /\ ShapeType(ic.shapeTree.children[1]) = "BOOLEAN_OPERATION"
               /\ ShapeFills(ic.shapeTree.children[1]) # <<>>) =>
                  ic.primaryColor = ShapeFills(ic.shapeTree.children[1])[1]

\* a candidate reports the fill of its BOOLEAN_OPERATION child, which has a
\* VECTOR child with another fill
BooleanFillWinsWitness ==
    \E e \in 1..Len(iconContainers) :
        LET ic == iconContainers[e]
        IN  /\ Len(ic.shapeTree.children) = 1
            /\ LET b == ic.shapeTree.children[1]
               IN  /\ ShapeType(b) = "BOOLEAN_OPERATION"
                   /\ ShapeFills(b) = <<colorToHex(Blue)>>
                   /\ \E k \in 1..Len(b.children) :
                         /\ ShapeType(b.children[k]) = "VECTOR"
                         /\ ShapeFills(b.children[k]) = <<colorToHex(Red)>>
                   /\ ic.primaryColor = colorToHex(Blue)

\* the children of the shape-tree node t whose extraction yields a colour
ChildYields(t) ==
    { i \in 1..Len(t.children) : extractPrimaryColor(t.children[i]) # NoHex }

SubtreeRecords(ic) ==
    {ic.rec} \cup { j \in Below(ic.guid) : IsCurrent(j) /\ ~isTransparentBg(nodes[j]) }

\* the colours of a candidate's own fills, then strokes, each kept once
OwnColours(ic) ==
    PushNew(PaintColors(nodes[ic.rec].strokePaints),
            PushNew(PaintColors(nodes[ic.rec].fillPaints), <<>>))

\* C15: for every candidate, the palette is the sequence of colours met in a
\* pre-order walk of its whole subtree (at each node fills, then strokes, then
\* children), each colour kept at its first occurrence: it has no duplicate, it
\* starts with the candidate's own colours, and it holds every fill and stroke
\* colour of the subtree and nothing else.
PaletteIsSubtreeColours ==
    \A e \in 1..Len(iconContainers) :
        LET ic == iconContainers[e]
        IN  /\ \A a, b \in 1..Len(ic.allColors) :
                  ic.allColors[a] = ic.allColors[b] => a = b
            /\ Len(OwnColours(ic)) <= Len(ic.allColors)
            /\ SubSeq(ic.allColors, 1, Len(OwnColours(ic))) = OwnColours(ic)
            /\ Palette(ic) = UNION { ColoursOf(j) : j \in SubtreeRecords(ic) }

\* C16: for every candidate, the reported vector count is the number of
\* distinct VECTOR nodes in the candidate's subtree of the graph, each counted
\* once.
VectorCountIsSubtreeCount ==
    \A e \in 1..Len(iconContainers) :
        LET ic == iconContainers[e]
        IN  ic.vectorCount =
                Cardinality({ j \in SubtreeRecords(ic) : nodes[j].type = "VECTOR" })

\* one of the rules 1 to 4 (lines 294-311) resolves the shape-tree node t
ResolvedByOwnPaint(t) ==
    \/ ShapeType(t) = "BOOLEAN_OPERATION" /\ ShapeFills(t) # <<>>
    \/ ShapeType(t) = "VECTOR" /\ (ShapeFills(t) # <<>> \/ ShapeStrokes(t) # <<>>)
    \/ ShapeType(t) = "ELLIPSE" /\ ShapeStrokes(t) # <<>>

\* the children among ChildYields(t) that are not rounded rectangles
PlainChildYields(t) ==
    { i \in ChildYields(t) : ShapeType(t.children[i]) # "ROUNDED_RECTANGLE" }

\* the smallest number of a non-empty set of numbers
Least(S) == CHOOSE i \in S : \A j \in S : i <= j

\* C19: for a node that none of rules 1 to 4 resolves, the colour is that of
\* the first child in order, among the children that are not
\* ROUNDED_RECTANGLE, whose own extraction yields a colour; the colour of a
\* ROUNDED_RECTANGLE child (the first one that yields) is returned only when
\* no other child yields one.
ChildrenBeforeRectangles ==
    \A t \in InventoryNodes :
        ~ResolvedByOwnPaint(t) =>
            /\ PlainChildYields(t) # {} =>
                  extractPrimaryColor(t) =
                      extractPrimaryColor(t.children[Least(PlainChildYields(t))])
            /\ (PlainChildYields(t) = {} /\ ChildYields(t) # {}) =>
                  extractPrimaryColor(t) =
                      extractPrimaryColor(t.children[Least(ChildYields(t))])

\* a candidate whose first child is a ROUNDED_RECTANGLE that yields a colour
\* reports the other colour of a later child
RectangleSkippedWitness ==
    \E e \in 1..Len(iconContainers) :
        LET ic == iconContainers[e]
        IN  /\ Len(ic.shapeTree.children) >= 2
            /\ ShapeType(ic.shapeTree.children[1]) = "ROUNDED_RECTANGLE"
            /\ 1 \in ChildYields(ic.shapeTree)
            /\ PlainChildYields(ic.shapeTree) # {}
            /\ ic.primaryColor # extractPrimaryColor(ic.shapeTree.children[1])
            /\ ic.primaryColor = colorToHex(Red)

\* C20: for a node that none of rules 1 to 4 resolves, its own first stroke
\* colour is returned only when no child yields a colour, the result is null
\* exactly when it has no colour stroke and no child yields a colour, and a
\* fill of a node that is neither BOOLEAN_OPERATION nor VECTOR is never the
\* reason for a colour.
OwnStrokeLast ==
    \A t \in InventoryNodes :
        /\ ~ResolvedByOwnPaint(t) =>
              /\ ChildYields(t) # {} =>
                    extractPrimaryColor(t) \in
                        { extractPrimaryColor(t.children[i]) : i \in ChildYields(t) }
              /\ (ChildYields(t) = {} /\ ShapeStrokes(t) # <<>>) =>
                    extractPrimaryColor(t) = ShapeStrokes(t)[1]
              /\ extractPrimaryColor(t) = NoHex <=>
                    (ShapeStrokes(t) = <<>> /\ ChildYields(t) = {})
        /\ (/\ ShapeType(t) \notin {"BOOLEAN_OPERATION", "VECTOR"}
            /\ ShapeStrokes(t) = <<>>
            /\ ChildYields(t) = {}) => extractPrimaryColor(t) = NoHex

\* a candidate with a green fill, the stroke #070828 and children that yield
\* no colour reports #070828
OwnStrokeWitness ==
    \E e \in 1..Len(iconContainers) :
        LET ic == iconContainers[e]
        IN  /\ ShapeFills(ic.shapeTree) = <<colorToHex(Green)>>
            /\ ShapeStrokes(ic.shapeTree) = <<colorToHex(Dark)>>
            /\ ic.shapeTree.children # <<>>
            /\ ChildYields(ic.shapeTree) = {}
            /\ ic.primaryColor = <<7, 8, 40>>

\* C24: for every icon candidate whose primary colour is not null, that colour
\* is an element of the candidate's palette.
PrimaryColourInPalette ==
    \A e \in 1..Len(iconContainers) :
        LET ic == iconContainers[e]
        IN  ic.primaryColor # NoHex => ic.primaryColor \in Palette(ic)

\* a candidate reports a stroke colour of a node below it as its primary
\* colour, and its palette holds that colour after another one
PrimaryColourWitness ==
    \E e \in 1..Len(iconContainers) :
        LET ic == iconContainers[e]
        IN  /\ ic.primaryColor = colorToHex(Dark)
            /\ ShapeStrokes(ic.shapeTree) = <<>>
            /\ Len(ic.allColors) >= 2
            /\ ic.allColors[1] # ic.primaryColor
            /\ ic.primaryColor \in Palette(ic)

\* C25: for every node-change list, also one in which an id is repeated, the
\* root ids of the icon inventory are pairwise distinct, and each entry's name
\* and size are those of the record that the node map holds for that id, the
\* record its shape tree root was built from.
OneEntryPerNode ==
    /\ \A a, b \in 1..Len(iconContainers) :
          iconContainers[a].guid = iconContainers[b].guid => a = b
    /\ \A e \in 1..Len(iconContainers) :
          LET ic == iconContainers[e]
          IN  /\ ic.rec = Lookup(nodeMap, ic.guid)
              /\ ic.rec = ic.shapeTree.rec
              /\ ic.size = [w |-> MathRound(nodes[ic.shapeTree.rec].size.x),
                            h |-> MathRound(nodes[ic.shapeTree.rec].size.y)]

\* C26: every entry of the icon inventory has a shape tree that contains at
\* least one node of kind VECTOR or BOOLEAN_OPERATION.
TreeHasVector ==
    \A e \in 1..Len(iconContainers) :
        \E t \in ShapeNodes(iconContainers[e].shapeTree) :
            ShapeType(t) \in {"VECTOR", "BOOLEAN_OPERATION"}

\* the graph descendants of the inventory entry ic that the graph holds
EntryDescendants(ic) == { j \in Below(ic.guid) : IsCurrent(j) }

\* C27: no entry of the icon inventory is a descendant in the graph of another
\* entry of the inventory.
NoNestedIcons ==
    \A a, b \in 1..Len(iconContainers) :
        a # b => iconContainers[b].rec \notin EntryDescendants(iconContainers[a])

\* the record i passes every test of the filter loop on its own
Qualifies(i) ==
    /\ nodes[i].type = "FRAME"
    /\ nodes[i].size # NoSize
    /\ MathRound(nodes[i].size.x) <= MaxIconSide
    /\ MathRound(nodes[i].size.y) <= MaxIconSide
    /\ KeyOf(i) # NullKey
    /\ hasVectorDescendant(KeyOf(i), VectorSearchDepth)
    /\ buildShapeTree(KeyOf(i), 0) # NullTree

\* C27 as the code has it: in a run that reaches its output the inventory has
\* exactly one entry for each record that passes the tests on its own, in list
\* order, whether or not an ancestor or a descendant of it is in the inventory
\* too: a small FRAME inside another small FRAME yields two entries, and the
\* shapes below the inner one are reported under both.
EntriesDecidedPerRecord ==
    gpc = "done" =>
        /\ \A i \in 1..Len(nodes) : InInventory(i) <=> Qualifies(i)
        /\ \A a, b \in 1..Len(iconContainers) :
              a < b => iconContainers[a].rec < iconContainers[b].rec

\* two entries of a finished inventory, one a graph descendant of the other,
\* with a VECTOR record in both shape trees
NestedIconsWitness ==
    /\ gpc = "done"
    /\ \E a, b \in 1..Len(iconContainers) :
          /\ a # b
          /\ iconContainers[b].rec \in EntryDescendants(iconContainers[a])
          /\ \E t \in ShapeNodes(iconContainers[a].shapeTree) :
                /\ ShapeType(t) = "VECTOR"
                /\ t \in ShapeNodes(iconContainers[b].shapeTree)

\* ------------------------------------------------------------------------
\* Properties of the hierarchy traversal
\* ------------------------------------------------------------------------

\* the order key of a record, a missing key counting as the empty string
OrderKey(i) ==
    LET p == nodes[i].parentIndex.position
    IN  IF p = NoPosition THEN <<>> ELSE p

\* two node lines of the output that come from the same forEach: the same
\* indent, and between them no line of a shallower call and no end of a
\* top-level call
SameLoop(a, b) ==
    /\ a < b
    /\ output[a].kind = "node"
    /\ output[b].kind = "node"
    /\ output[a].indent = output[b].indent
    /\ \A c \in (a + 1)..(b - 1) :
          IF output[c].kind = "blank" THEN output[a].indent = 0
          ELSE output[c].indent >= output[a].indent

\* C8: for every parent, its children are visited in ascending (lexicographic)
\* order of their order key whatever order the records arrived in; children
\* with equal keys are visited in their arrival order.
SiblingOrder ==
    gpc = "done" =>
        \A a, b \in 1..Len(output) :
            SameLoop(a, b) =>
                LET c == CompareWeights(OrderKey(output[a].rec), OrderKey(output[b].rec))
                IN  c < 0 \/ (c = 0 /\ output[a].rec <= output[b].rec)

\* a record whose parent reference is absent or does not resolve in the node map
IsRoot(i) == ParentKeyOf(i) = NullKey \/ ParentKeyOf(i) \notin DOMAIN nodeMap

\* a record with a parent reference that does not resolve in the node map
IsDangling(i) == ParentKeyOf(i) # NullKey /\ ParentKeyOf(i) \notin DOMAIN nodeMap

TopLevelLines == { a \in 1..Len(output) : output[a].kind = "node" /\ output[a].indent = 0 }

\* C9 as stated: the roots are the ids whose parentId is absent or does not
\* resolve in the node map, and the hierarchy traversal starts from each of
\* them: a node with a dangling parent reference is printed as a top-level
\* node instead of being left out.
RootsAreTraversed ==
    gpc = "done" =>
        \A i \in 1..Len(nodes) :
            (KeyOf(i) # NullKey /\ nodeMap[KeyOf(i)] = i)
                => (IsRoot(i) <=> \E a \in TopLevelLines : output[a].rec = i)

\* the id of the first CANVAS record of the list, if it has one
FirstCanvasKey ==
    LET found == { i \in 1..Len(nodes) : nodes[i].type = "CANVAS" }
    IN  IF found = {} THEN NullKey
        ELSE KeyOf(CHOOSE i \in found : \A j \in found : i <= j)

\* C9 as amended: the traversal starts from the children of the first CANVAS
\* record (one top-level line for each entry of its child list when the depth
\* argument is not negative) and from nothing else; a record whose parent
\* reference is absent or does not resolve in the node map is never printed,
\* at the top level or below it.
TraversalStartsAtCanvas ==
    /\ \A a \in TopLevelLines :
          FirstCanvasKey # NullKey /\ ParentKeyOf(output[a].rec) = FirstCanvasKey
    /\ \A a \in 1..Len(output) : output[a].kind = "node" => ~IsRoot(output[a].rec)
    /\ (gpc = "done" /\ maxDepth >= 0) =>
          Cardinality(TopLevelLines) = Len(ChildrenOf(childrenMap, FirstCanvasKey))

\* C9 witness: a finished run that printed a top-level frame and left out a
\* node whose parent reference dangles.
DanglingLeftOutWitness ==
    /\ gpc = "done"
    /\ TopLevelLines # {}
    /\ \E i \in 1..Len(nodes) :
          /\ KeyOf(i) # NullKey
          /\ nodeMap[KeyOf(i)] = i
          /\ IsDangling(i)
          /\ \A a \in 1..Len(output) : output[a].rec # i

\* ------------------------------------------------------------------------
\* Properties of the child order in the shape tree
\* ------------------------------------------------------------------------

\* C21: in every shape tree, the children of each node are listed in ascending
\* order of their order key (parentIndex.position), whatever order the records
\* arrived in.
ShapeChildrenInKeyOrder ==
    \A t \in InventoryNodes :
        \A a, b \in 1..Len(t.children) :
            a < b => CompareWeights(OrderKey(t.children[a].rec),
                                    OrderKey(t.children[b].rec)) <= 0

\* ------------------------------------------------------------------------
\* Properties of the depth bound of the hierarchy traversal
\* ------------------------------------------------------------------------

\* the lines of the given kind in a sequence of output lines
LinesOfKind(out, kind) == { a \in 1..Len(out) : out[a].kind = kind }

\* the printTree call that is about to start, if there is one
EnteringCall == stack[Len(stack)]

\* C22: for every integer maxDepth and every node-change list, also one with
\* parent cycles, the hierarchy traversal terminates; a node line is emitted
\* only at depth <= maxDepth (top-level frames are depth 0); a node reached at
\* depth maxDepth + 1 gets a single '... (k children)' line when it has k > 0
\* children and nothing when it has none, and the traversal does not descend
\* below it.
HierarchyDepthBound ==
    /\ [](/\ \A a \in LinesOfKind(output, "node") :
                output[a].indent >= 0 /\ output[a].indent <= maxDepth
          /\ \A a \in LinesOfKind(output, "more") :
                output[a].indent = maxDepth + 1 /\ output[a].rec > 0
          /\ Len(stack) <= maxDepth + 2
          /\ \A d \in 1..Len(stack) : stack[d].indent = d - 1)
    /\ [][(/\ stack # <<>>
           /\ EnteringCall.stage = "enter"
           /\ EnteringCall.indent > maxDepth) =>
              /\ EnteringCall.indent = maxDepth + 1
              /\ Len(stack') = Len(stack) - 1
              /\ LinesOfKind(output', "node") = LinesOfKind(output, "node")
              /\ Cardinality(LinesOfKind(output', "more")) =
                    Cardinality(LinesOfKind(output, "more"))
                    + (IF CallChildren(EnteringCall) # <<>> THEN 1 ELSE 0)
              /\ CallChildren(EnteringCall) # <<>> =>
                    \E a \in LinesOfKind(output', "more") \ LinesOfKind(output, "more") :
                        output'[a].rec = Len(CallChildren(EnteringCall))]_vars
    /\ <>(gpc \in {"done", "threw"})

\* a traversal with maxDepth = 1 went round a parent cycle, was cut at depth 2
\* with a '... (k children)' line, and ended
DepthCutWitness ==
    /\ gpc = "done"
    /\ maxDepth = 1
    /\ \E a, b \in LinesOfKind(output, "node") :
          /\ output[a].indent = 0
          /\ output[b].indent = 1
          /\ KeyOf(output[a].rec) = KeyOf(output[b].rec)
    /\ \E c \in LinesOfKind(output, "more") : output[c].indent = 2

\* ------------------------------------------------------------------------
\* Properties of the image hash
\* ------------------------------------------------------------------------

\* both scripts have dealt with a fill whose hash holds 20 bytes
BothRendered ==
    /\ hash # NoHash
    /\ Len(hash.bytes) = HashBytes
    /\ imagesHex # NotRun
    /\ layoutHex # NotRun

\* hex is the 40 digits of the bytes bs: two digits per byte, in byte order
IsHexOf(hex, bs) ==
    /\ Len(hex) = 2 * Len(bs)
    /\ \A i \in 1..Len(bs) :
        /\ hex[2 * i - 1] = bs[i] \div 16
        /\ hex[2 * i] = bs[i] % 16

\* C23: for a fill whose hash holds 20 bytes, be it an Array or an Object
\* with the keys 0..19, the layout extractor and the image mapper render the
\* same 40 hex digits, two per byte, in byte order.
HashRendering ==
    BothRendered =>
        /\ imagesHex = layoutHex
        /\ IsHexOf(imagesHex, hash.bytes)

\* the same for the image mapper alone
ImagesRendering ==
    (hash # NoHash /\ Len(hash.bytes) = HashBytes /\ imagesHex # NotRun)
        => IsHexOf(imagesHex, hash.bytes)

\* the same for hashes that are Arrays
ArrayHashRendering ==
    (BothRendered /\ hash.kind = "array") =>
        /\ imagesHex = layoutHex
        /\ IsHexOf(imagesHex, hash.bytes)

====
